---------------------------- MODULE Spec2Model ----------------------------
(***************************************************************************)
(* Model of the hand-gesture volume control (src/hand_detection.py).       *)
(*                                                                         *)
(* Numbers.  The program computes with Python floats; the model computes   *)
(* the same expressions exactly, as fractions over one common denominator  *)
(* Den: a volume level v in [0, 1] is the integer v * Den.  Den is chosen   *)
(* so that every value the loop can produce within MaxHandFrames hand      *)
(* frames is an integer (170 divides it for the mapping, 5^MaxHandFrames   *)
(* for the repeated weighting by 0.8 and 0.2, 2 for the start value 0.5). *)
(* Clock readings are in milliseconds since the controller was built.     *)
(***************************************************************************)
EXTENDS Integers, Sequences, FiniteSets, TLC

VARIABLES
    pc,                 \* position of run(): "read", "check", "detect", "apply", "waitkey", "cleanup", "done"
    success,            \* result flag of the last cap.read()
    results,            \* detector output for the frame in hand: <<>> or <<thumb_pos, index_pos>>
    current_volume,     \* self.current_volume, times Den
    last_volume_update, \* self.last_volume_update, ms
    now,                \* last reading of time.time(), ms
    system,             \* self.system
    has_volume,         \* whether self.volume exists (pycaw endpoint, Windows only)
    issued,             \* OS volume updates issued so far, in order
    key_pending,        \* key code waiting for cv2.waitKey, NoKey when none
    cap_open,           \* the camera handle is held
    releases,           \* number of cap.release() calls
    dists,              \* history: thumb-index distance of every hand frame
    targets,            \* history: map_distance_to_volume's result on every hand frame
    lock_counter,       \* latch variant: debounce counter
    locked,             \* latch variant: lock state
    vol_buffer,         \* latch variant: the last raw volume samples (percent)
    system_volume,      \* latch variant: last percent handed to the volume sink
    sink_calls,         \* latch variant: number of volume sink invocations
    close_frames,       \* latch variant, history: "fingers close" (TRUE) or not, per frame
    counters            \* latch variant, history: the counter after each frame

vars == <<pc, success, results, current_volume, last_volume_update, now, system,
          has_volume, issued, key_pending, cap_open, releases, dists, targets,
          lock_counter, locked, vol_buffer, system_volume, sink_calls,
          close_frames, counters>>

loopVars == <<pc, success, results, current_volume, last_volume_update, now,
              system, has_volume, issued, key_pending, cap_open, releases,
              dists, targets>>

latchVars == <<lock_counter, locked, vol_buffer, system_volume, sink_calls,
               close_frames, counters>>

-----------------------------------------------------------------------------
(* Bounds of the model *)

MaxHandFrames == 3

-----------------------------------------------------------------------------
(* Program constants *)

min_distance == 30

max_distance == 200

\* volume_smoothing = 0.8 = SmoothNum / SmoothDen
SmoothNum == 4

SmoothDen == 5

\* 0.1 s between two issued updates, in ms
Throttle == 100

\* ord('q')
KeyQ == 113

\* the mask of "cv2.waitKey(1) & 0xFF", as a modulus
KeyMask == 256

\* cv2.waitKey's result when no key is waiting
NoKey == -1

\* int(volume_level * 100)
Percent == 100

\* cap.set(cv2.CAP_PROP_FRAME_WIDTH, 1280), cap.set(cv2.CAP_PROP_FRAME_HEIGHT, 720)
FrameWidth == 1280

FrameHeight == 720

\* the common denominator of volume levels
Den == (max_distance - min_distance) * SmoothDen ^ MaxHandFrames

Min(a, b) == IF a < b THEN a ELSE b

Max(a, b) == IF a > b THEN a ELSE b

\* Python's round(num / den): to the nearest integer, a tie to the even one
RoundHalfEven(num, den) ==
    LET q == num \div den
        r == num % den
    IN  IF 2 * r < den THEN q
        ELSE IF 2 * r > den THEN q + 1
        ELSE IF q % 2 = 0 THEN q ELSE q + 1

-----------------------------------------------------------------------------
(* Inputs *)

\* Where the detector may put the thumb tip (pixels).
ThumbPositions == { <<100, 100>> }

\* Where it may put the index tip: at 10, 30, 100, 200 and 1000 px of the thumb.
IndexPositions == { <<106, 108>>, <<130, 100>>, <<160, 180>>, <<100, 300>>, <<1100, 100>> }

\* Time between two readings of the clock, ms.
Elapsed == { 40, 100 }

\* Keys the user may press: 'q' and 'Q'.
Keys == { 113, 81 }

Systems == { "linux", "darwin", "windows", "freebsd" }

-----------------------------------------------------------------------------
(* Pure functions *)

\* math.sqrt on a perfect square; no two points of a frame are further apart
\* than FrameWidth + FrameHeight
Sqrt(n) == CHOOSE r \in 0..(FrameWidth + FrameHeight) : r * r = n

calculate_distance(point1, point2) ==
    Sqrt((point1[1] - point2[1]) * (point1[1] - point2[1])
         + (point1[2] - point2[2]) * (point1[2] - point2[2]))

map_distance_to_volume_noclamp(distance) ==
    ((distance - min_distance) * Den) \div (max_distance - min_distance)

map_distance_to_volume_percent(distance) ==
    LET d == Max(min_distance, Min(max_distance, distance))
        twice == (2 * (d - min_distance) * Percent) \div (max_distance - min_distance)
    IN  (((twice + 1) \div 2) * Den) \div Percent

\* the result is volume_level * Den
map_distance_to_volume(distance) ==
    LET d == Max(min_distance, Min(max_distance, distance))
    IN  ((d - min_distance) * Den) \div (max_distance - min_distance)

Smooth_jump(cur, target_volume) == target_volume

Smooth_swapped(cur, target_volume) ==
    ((SmoothDen - SmoothNum) * cur + SmoothNum * target_volume) \div SmoothDen

\* volume_smoothing * current_volume + (1 - volume_smoothing) * target_volume
Smooth(cur, target_volume) ==
    (SmoothNum * cur + (SmoothDen - SmoothNum) * target_volume) \div SmoothDen

\* int(volume_level * 100)
VolumePercent(volume_level) == (volume_level * Percent) \div Den

-----------------------------------------------------------------------------
(* The volume sink *)

\* The update the branch for self.system performs; <<>> when no branch runs.
OsUpdate(volume_level, current_time, pactl_ok) ==
    IF system = "linux"
    THEN << [t |-> current_time, via |-> IF pactl_ok THEN "pactl" ELSE "amixer",
             arg |-> VolumePercent(volume_level)] >>
    ELSE IF system = "darwin"
    THEN << [t |-> current_time, via |-> "osascript",
             arg |-> VolumePercent(volume_level)] >>
    ELSE IF system = "windows"
    THEN << [t |-> current_time, via |-> IF has_volume THEN "pycaw" ELSE "nircmd",
             arg |-> volume_level] >>
    ELSE << >>

set_system_volume_unthrottled(volume_level, current_time, pactl_ok) ==
    /\ last_volume_update' = current_time
    /\ issued' = issued \o OsUpdate(volume_level, current_time, pactl_ok)

set_system_volume(volume_level, current_time, pactl_ok) ==
    IF current_time - last_volume_update < Throttle
    THEN UNCHANGED <<last_volume_update, issued>>
    ELSE /\ last_volume_update' = current_time
         /\ issued' = issued \o OsUpdate(volume_level, current_time, pactl_ok)

-----------------------------------------------------------------------------
(* HandVolumeControl.__init__ and the start of run() *)

Init ==
    /\ pc = "read"
    /\ success = FALSE
    /\ results = << >>
    /\ current_volume = Den \div 2
    /\ last_volume_update = 0
    /\ now = 0
    /\ system \in Systems
    /\ has_volume \in BOOLEAN
    /\ (system # "windows" => has_volume = FALSE)
    /\ issued = << >>
    /\ key_pending = NoKey
    /\ cap_open = TRUE
    /\ releases = 0
    /\ dists = << >>
    /\ targets = << >>
    /\ lock_counter = 0
    /\ locked = FALSE
    /\ vol_buffer = << >>
    /\ system_volume = 0
    /\ sink_calls = 0
    /\ close_frames = << >>
    /\ counters = << >>

-----------------------------------------------------------------------------
(* The main loop, one action per step *)

\* success, img = cap.read()
Read ==
    /\ pc = "read"
    /\ success' \in BOOLEAN
    /\ pc' = "check"
    /\ UNCHANGED <<results, current_volume, last_volume_update, now, system,
                   has_volume, issued, key_pending, cap_open, releases, dists,
                   targets>>
    /\ UNCHANGED latchVars

\* if not success: continue
ReadFailed ==
    /\ pc = "check"
    /\ ~success
    /\ pc' = "read"
    /\ UNCHANGED <<success, results, current_volume, last_volume_update, now,
                   system, has_volume, issued, key_pending, cap_open, releases,
                   dists, targets>>
    /\ UNCHANGED latchVars

ReadOk ==
    /\ pc = "check"
    /\ success
    /\ pc' = "detect"
    /\ UNCHANGED <<success, results, current_volume, last_volume_update, now,
                   system, has_volume, issued, key_pending, cap_open, releases,
                   dists, targets>>
    /\ UNCHANGED latchVars

\* results = self.hands.process(img_rgb): no hand, or one hand (max_num_hands = 1)
Detect ==
    /\ pc = "detect"
    /\ \/ results' = << >>
       \/ /\ Len(dists) < MaxHandFrames
          /\ \E thumb_pos \in ThumbPositions, index_pos \in IndexPositions :
                results' = <<thumb_pos, index_pos>>
    /\ pc' = "apply"
    /\ UNCHANGED <<success, current_volume, last_volume_update, now, system,
                   has_volume, issued, key_pending, cap_open, releases, dists,
                   targets>>
    /\ UNCHANGED latchVars

\* if results.multi_hand_landmarks: distance, mapping, smoothing, set_system_volume
HandFrame ==
    /\ pc = "apply"
    /\ results # << >>
    /\ \E dt \in Elapsed, pactl_ok \in BOOLEAN :
          LET distance == calculate_distance(results[1], results[2])
              target_volume == map_distance_to_volume(distance)
              current_time == now + dt
          IN  /\ current_volume' = Smooth(current_volume, target_volume)
              /\ now' = current_time
              /\ set_system_volume(current_volume', current_time, pactl_ok)
              /\ dists' = Append(dists, distance)
              /\ targets' = Append(targets, target_volume)
    /\ pc' = "waitkey"
    /\ UNCHANGED <<success, results, system, has_volume, key_pending, cap_open,
                   releases>>
    /\ UNCHANGED latchVars

NoHandFrame_reapply ==
    /\ pc = "apply"
    /\ results = << >>
    /\ \E dt \in Elapsed, pactl_ok \in BOOLEAN :
          /\ now' = now + dt
          /\ set_system_volume(current_volume, now + dt, pactl_ok)
    /\ pc' = "waitkey"
    /\ UNCHANGED <<success, results, current_volume, system, has_volume,
                   key_pending, cap_open, releases, dists, targets>>
    /\ UNCHANGED latchVars

\* else: only the prompt is drawn
NoHandFrame ==
    /\ pc = "apply"
    /\ results = << >>
    /\ pc' = "waitkey"
    /\ UNCHANGED <<success, results, current_volume, last_volume_update, now,
                   system, has_volume, issued, key_pending, cap_open, releases,
                   dists, targets>>
    /\ UNCHANGED latchVars

\* if cv2.waitKey(1) & 0xFF == ord('q'): break
\* (the iteration ends here: the frame's detector output is dropped)
WaitKey ==
    /\ pc = "waitkey"
    /\ pc' = IF key_pending % KeyMask = KeyQ THEN "cleanup" ELSE "read"
    /\ key_pending' = NoKey
    /\ results' = << >>
    /\ UNCHANGED <<success, current_volume, last_volume_update, now,
                   system, has_volume, issued, cap_open, releases, dists,
                   targets>>
    /\ UNCHANGED latchVars

\* cap.release(); cv2.destroyAllWindows()
Cleanup ==
    /\ pc = "cleanup"
    /\ cap_open' = FALSE
    /\ releases' = releases + 1
    /\ pc' = "done"
    /\ UNCHANGED <<success, results, current_volume, last_volume_update, now,
                   system, has_volume, issued, key_pending, dists, targets>>
    /\ UNCHANGED latchVars

\* The user presses a key; it waits for the next cv2.waitKey.
PressKey ==
    /\ pc # "done"
    /\ key_pending = NoKey
    /\ key_pending' \in Keys
    /\ UNCHANGED <<pc, success, results, current_volume, last_volume_update,
                   now, system, has_volume, issued, cap_open, releases, dists,
                   targets>>
    /\ UNCHANGED latchVars

Next ==
    \/ Read
    \/ ReadFailed
    \/ ReadOk
    \/ Detect
    \/ HandFrame
    \/ NoHandFrame
    \/ WaitKey
    \/ Cleanup
    \/ PressKey

Spec == Init /\ [][Next]_vars

\* The interpreter runs every statement of the loop; what the camera, the
\* detector and the user do is not constrained.
FairSpec ==
    /\ Spec
    /\ WF_vars(Read)
    /\ WF_vars(ReadFailed)
    /\ WF_vars(ReadOk)
    /\ WF_vars(Detect)
    /\ WF_vars(HandFrame)
    /\ WF_vars(NoHandFrame)
    /\ WF_vars(WaitKey)
    /\ WF_vars(Cleanup)

-----------------------------------------------------------------------------
(* The latch variant of the loop.  Its script is not among the sources; it *)
(* is modelled from the specification's sections 3, 4.1 to 4.3 and 8: a    *)
(* frame with a detected hand maps the thumb-index distance to a percent,  *)
(* averages the last WindowSize samples, steps the debounce counter on the *)
(* index-middle distance, and hands the average to the volume sink unless  *)
(* the latch is locked.  Index-middle distances are in thousandths of the  *)
(* normalized unit.                                                        *)

MaxLatchFrames == 7

\* lock once the counter exceeds it
LockThreshold == 3

\* "fingers close": index-middle distance below 0.04
CloseDistance == 40

\* length of the smoothing buffer
WindowSize == 3

\* index-middle distances the detector may report: 0.02, 0.04, 0.06
IndexMiddleDistances == { 20, 40, 60 }

\* thumb-index distances the detector may report, px
ThumbIndexDistances == { 10, 100, 200 }

\* round(((d - 30) / 170) * 100), clamped to 0 and 100 outside [30, 200]
MappedPercent(distance) ==
    LET d == Max(min_distance, Min(max_distance, distance))
    IN  RoundHalfEven((d - min_distance) * Percent, max_distance - min_distance)

RECURSIVE SeqSum(_)
SeqSum(seq) == IF seq = << >> THEN 0 ELSE Head(seq) + SeqSum(Tail(seq))

\* the buffer after a sample: the most recent WindowSize samples
PushSample(buffer, sample) ==
    LET all == Append(buffer, sample)
    IN  IF Len(all) > WindowSize THEN Tail(all) ELSE all

\* simple average of the buffer
MovingAverage(buffer) == SeqSum(buffer) \div Len(buffer)

IsClose(im_distance) == im_distance < CloseDistance

LockCounterStep_reset(counter, close) ==
    IF close THEN counter + 1 ELSE 0

\* incremented while the fingers are close, decremented otherwise, floored at zero
LockCounterStep(counter, close) ==
    IF close THEN counter + 1 ELSE Max(0, counter - 1)

IsLocked_at_threshold(counter) == counter >= LockThreshold

\* locked once the counter exceeds the threshold
IsLocked(counter) == counter > LockThreshold

ForwardVolume_ungated(is_locked, smoothed) ==
    /\ system_volume' = smoothed
    /\ sink_calls' = sink_calls + 1

\* while locked the value is computed but not applied
ForwardVolume(is_locked, smoothed) ==
    IF is_locked
    THEN UNCHANGED <<system_volume, sink_calls>>
    ELSE /\ system_volume' = smoothed
         /\ sink_calls' = sink_calls + 1

InitLatch ==
    /\ Init
    /\ system = "linux"

\* one frame with a detected hand
LatchFrame ==
    /\ Len(close_frames) < MaxLatchFrames
    /\ \E im_distance \in IndexMiddleDistances, distance \in ThumbIndexDistances :
          LET close == IsClose(im_distance)
          IN  /\ vol_buffer' = PushSample(vol_buffer, MappedPercent(distance))
              /\ lock_counter' = LockCounterStep(lock_counter, close)
              /\ locked' = IsLocked(lock_counter')
              /\ ForwardVolume(locked', MovingAverage(vol_buffer'))
              /\ close_frames' = Append(close_frames, close)
              /\ counters' = Append(counters, lock_counter')
    /\ UNCHANGED loopVars

NextLatch == LatchFrame

SpecLatch == InitLatch /\ [][NextLatch]_vars

-----------------------------------------------------------------------------
(* Helpers of the properties *)

Last(seq) == seq[Len(seq)]

\* the hand frames so far all saw the distance d
ConstantInput(d) == \A i \in 1..Len(dists) : dists[i] = d

\* the step is the body of "if results.multi_hand_landmarks" for one frame
HandStep == pc = "apply" /\ results # << >> /\ pc' = "waitkey"

PercentCommands == { "pactl", "amixer", "osascript" }

-----------------------------------------------------------------------------
(* C1, as stated: on every hand frame the mapped volume is 0 for d <= 30,  *)
(* the maximum for d >= 200 and round(((d-30)/170)*100) percent in         *)
(* between, and it is non-decreasing in d.                                 *)
C1_MapRoundsToWholePercent ==
    /\ \A i \in 1..Len(dists) :
          /\ dists[i] <= min_distance => targets[i] = 0
          /\ dists[i] >= max_distance => targets[i] = Den
          /\ (min_distance < dists[i] /\ dists[i] < max_distance) =>
                targets[i] * Percent =
                   RoundHalfEven((dists[i] - min_distance) * Percent,
                                 max_distance - min_distance) * Den
    /\ \A i, j \in 1..Len(dists) :
          dists[i] <= dists[j] => targets[i] <= targets[j]

(* C1, amended: the mapped volume is 0 for d <= 30, the maximum 1.0 for    *)
(* d >= 200 and exactly the fraction (d-30)/170 in between, not rounded to *)
(* a whole percent; it is non-decreasing in d.                             *)
C1_MapIsClampedLinear ==
    /\ \A i \in 1..Len(dists) :
          /\ dists[i] <= min_distance => targets[i] = 0
          /\ dists[i] >= max_distance => targets[i] = Den
          /\ (min_distance < dists[i] /\ dists[i] < max_distance) =>
                targets[i] * (max_distance - min_distance) =
                   (dists[i] - min_distance) * Den
    /\ \A i, j \in 1..Len(dists) :
          dists[i] <= dists[j] => targets[i] <= targets[j]

\* one run mapped a distance below the range, one inside it and one above it
C1_Witness ==
    /\ \E i \in 1..Len(dists) : dists[i] < min_distance
    /\ \E i \in 1..Len(dists) : min_distance < dists[i] /\ dists[i] < max_distance
    /\ \E i \in 1..Len(dists) : dists[i] > max_distance

-----------------------------------------------------------------------------
-----------------------------------------------------------------------------
(* C6: on every hand frame the new smoothed volume lies between the        *)
(* previous one and the frame's raw target, has moved when they differed,  *)
(* and is not the raw target unless the previous one already was.          *)
C6_SmoothingMovesTowardTarget ==
    [][HandStep =>
         /\ Min(current_volume, Last(targets')) <= current_volume'
         /\ current_volume' <= Max(current_volume, Last(targets'))
         /\ current_volume # Last(targets') =>
               (current_volume' # Last(targets') /\ current_volume' # current_volume)]_vars

\* hand frames pulled the volume up and then down, each time short of the target
C6_Witness ==
    /\ pc = "waitkey"
    /\ Len(targets) >= 2
    /\ targets[Len(targets) - 1] = Den
    /\ Last(targets) = 0
    /\ current_volume > 0

-----------------------------------------------------------------------------
(* C7, as stated: from startup, once three or more hand frames all saw the *)
(* same distance, the smoothed volume is the mapped value of that          *)
(* distance: 0 percent after [10, 10, 10], 100 percent after               *)
(* [200, 200, 200].                                                        *)
C7_ConstantInputSettlesInThreeFrames ==
    \A d \in {10, 200} :
        (Len(dists) >= 3 /\ ConstantInput(d)) =>
            /\ current_volume = map_distance_to_volume(d)
            /\ VolumePercent(current_volume) = VolumePercent(map_distance_to_volume(d))

(* C7, amended: from startup (smoothed volume 0.5) a constant input moves  *)
(* the smoothed volume toward its mapped value geometrically, the gap      *)
(* shrinking by the factor 0.8 per frame and never closing: [10, 10, 10]   *)
(* leaves the volume at 0.256 (25 percent), [200, 200, 200] at 0.744       *)
(* (74 percent).                                                           *)
C7_ConstantInputDecaysGeometrically ==
    /\ \A d \in {10, 200} :
          ConstantInput(d) =>
             /\ SmoothDen ^ Len(dists) * (current_volume - map_distance_to_volume(d)) =
                   SmoothNum ^ Len(dists) * ((Den \div 2) - map_distance_to_volume(d))
             /\ current_volume # map_distance_to_volume(d)
    /\ dists = <<10, 10, 10>> => VolumePercent(current_volume) = 25
    /\ dists = <<200, 200, 200>> => VolumePercent(current_volume) = 74

\* three frames at 200 px have been smoothed
C7_Witness ==
    /\ dists = <<200, 200, 200>>
    /\ pc = "waitkey"

-----------------------------------------------------------------------------
(* C8: an iteration in which the detector reports no hand leaves           *)
(* current_volume and last_volume_update unchanged and issues no OS        *)
(* update: only the hand branch of a frame changes them.                   *)
C8_NoHandLeavesVolume ==
    [][~HandStep =>
         /\ current_volume' = current_volume
         /\ last_volume_update' = last_volume_update
         /\ issued' = issued]_vars

\* a frame without a hand was processed after an update had been issued
C8_Witness ==
    /\ pc = "waitkey"
    /\ results = << >>
    /\ Len(issued) >= 1

-----------------------------------------------------------------------------
(* C9: the smoothed volume is always within [0, 1], and every percentage   *)
(* handed to an OS volume command is an integer in 0..100.                 *)
C9_VolumeInRange ==
    /\ 0 <= current_volume /\ current_volume <= Den
    /\ \A i \in 1..Len(issued) :
          IF issued[i].via \in PercentCommands
          THEN issued[i].arg \in 0..Percent
          ELSE 0 <= issued[i].arg /\ issued[i].arg <= Den

\* updates were issued in a run that saw distances far outside [30, 200]
C9_Witness ==
    /\ \E i \in 1..Len(dists) : dists[i] = 10
    /\ \E i \in 1..Len(dists) : dists[i] = 1000
    /\ Len(issued) >= 2
    /\ Last(issued).via \in PercentCommands

-----------------------------------------------------------------------------
(* C10: once 'q' has been pressed the loop eventually exits and the camera *)
(* handle has been released exactly once, also in runs where camera reads  *)
(* fail.                                                                   *)
C10_QuitLeadsToRelease ==
    (key_pending = KeyQ) ~> (pc = "done" /\ releases = 1 /\ ~cap_open)

-----------------------------------------------------------------------------
(* Helpers of the latch properties *)

\* number of frames at the end of the history that are all "close" (b = TRUE)
\* or all "not close" (b = FALSE)
RECURSIVE RunLength(_, _)
RunLength(frames, b) ==
    IF frames = << >> \/ Last(frames) # b THEN 0
    ELSE 1 + RunLength(SubSeq(frames, 1, Len(frames) - 1), b)

CloseCount(frames) == Cardinality({ i \in 1..Len(frames) : frames[i] })

AllClose(frames) == \A i \in 1..Len(frames) : frames[i]

-----------------------------------------------------------------------------
-----------------------------------------------------------------------------
-----------------------------------------------------------------------------
=============================================================================
